---- MODULE Spec2Model ----
(***************************************************************************)
(* State machine of the chat client in src/src/App.tsx: the App            *)
(* component's React state (messages, input, isLoading, activeTool), the   *)
(* i18n language, the callGroqAPI invocations awaited by handleSubmit, the *)
(* start-up credential probe and the event handlers that change them.      *)
(*                                                                         *)
(* Text is a sequence of characters (one-character strings).  A fixed text *)
(* whose wording is not in the source (translations, diagnostics) is a     *)
(* one-element sequence holding a token that names it.                     *)
(***************************************************************************)
EXTENDS Naturals, Sequences, FiniteSets

VARIABLES
    messages,    \* useState<Message[]>([])            App.tsx:18
    input,       \* useState('')                       App.tsx:19
    isLoading,   \* useState(false)                    App.tsx:20
    activeTool,  \* useState<Tool>('chat')             App.tsx:21
    language,    \* i18n.language                      App.tsx:17,172
    apiKey,      \* import.meta.env.VITE_GROQ_API_KEY is set (build-time)
    closure,     \* the state values the handlers of the last render close over
    calls,       \* callGroqAPI invocations whose handleSubmit still awaits them
    probe,       \* the start-up request of testApiKey
    now,         \* the last value Date.now() returned
    event        \* history: the last event the event loop dispatched

vars == <<messages, input, isLoading, activeTool, language, apiKey, closure,
          calls, probe, now, event>>

----------------------------------------------------------------------------
(* Bounds *)

MaxTurns == 3    \* longest transcript
MaxNow == 1      \* last clock reading
MaxCalls == 2    \* most handleSubmit activations awaiting at once

----------------------------------------------------------------------------
(* Text *)

WhiteSpace == {" ", "\n", "\t"}

\* the values typed into the textarea: empty, whitespace only, padded on
\* both ends, and with whitespace inside
Drafts == {<<>>, <<" ", "\n">>, <<" ", "a", "\n">>, <<"a", " ", "b">>}

RECURSIVE trimStart(_)
trimStart(s) ==
    IF s # <<>> /\ Head(s) \in WhiteSpace THEN trimStart(Tail(s)) ELSE s

RECURSIVE trimEnd(_)
trimEnd(s) ==
    IF s # <<>> /\ s[Len(s)] \in WhiteSpace
    THEN trimEnd(SubSeq(s, 1, Len(s) - 1))
    ELSE s

\* String.prototype.trim
trim(s) == trimEnd(trimStart(s))

DecimalDigits == <<"0", "1", "2", "3", "4", "5", "6", "7", "8", "9">>

\* Number.prototype.toString of a non-negative integer
RECURSIVE toString(_)
toString(n) ==
    IF n < 10
    THEN <<DecimalDigits[n + 1]>>
    ELSE Append(toString(n \div 10), DecimalDigits[(n % 10) + 1])

\* the value of an absent property
undefined == <<"undefined">>

Languages == {"en", "zh"}

\* t('error.apiError'): the entry of the language i18n has when t is called
apiErrorText(lng) ==
    IF lng = "en" THEN <<"error.apiError[en]">> ELSE <<"error.apiError[zh]">>

Tools == {"chat", "editor", "chart"}

----------------------------------------------------------------------------
(* The remote endpoint: what one POST can come back with *)

ReplyTexts == {<<"H", "e", "l", "l", "o", "!">>, <<" ", "o", "k", " ">>}

UpstreamMessage == <<"upstream error message">>

FallbackMessage == <<"Failed to get response from Groq API">>

Outcomes ==
    {[kind |-> k, text |-> <<>>] :
        k \in {"network", "status", "noChoices", "emptyChoices",
               "noMessage", "noContent"}}
    \cup {[kind |-> "statusMessage", text |-> UpstreamMessage]}
    \cup {[kind |-> "content", text |-> s] : s \in ReplyTexts}

----------------------------------------------------------------------------
(* Completion gateway: callGroqAPI *)

\* the request body's messages: userMessages.map(msg => ({role, content}))
requestMessages(userMessages) ==
    [i \in 1..Len(userMessages) |->
        [role |-> userMessages[i].role, content |-> userMessages[i].content]]

\* variant: the key is not tested before the request is posted
startCallWithoutKeyTest(userMessages) ==
    [userMessages |-> userMessages, stage |-> "http"]

\* callGroqAPI up to its await: without a key it throws before axios.post,
\* with one it posts the body and suspends
startCall(userMessages) ==
    [userMessages |-> userMessages,
     stage |-> IF apiKey THEN "http" ELSE "rejected"]

\* the catch clause: the upstream message when the error carries one, else
\* the fallback
rethrown(outcome) ==
    IF outcome.kind = "statusMessage" THEN outcome.text ELSE FallbackMessage

\* how callGroqAPI settles once its request came back with `outcome`:
\* response.data.choices[0].message.content, or what the catch clause throws
settled(outcome) ==
    CASE outcome.kind = "content" -> [ok |-> TRUE, value |-> outcome.text]
      [] outcome.kind = "noContent" -> [ok |-> TRUE, value |-> undefined]
      [] OTHER -> [ok |-> FALSE, value |-> rethrown(outcome)]

\* a call that threw for the missing key settles as its catch clause rethrows
settledWithoutKey == [ok |-> FALSE, value |-> FallbackMessage]

\* a rejected promise is delivered to its awaiter in a microtask, before the
\* event loop dispatches anything else
MicrotaskPending == \E i \in 1..Len(calls) : calls[i].stage = "rejected"

\* POSTs to the chat-completions endpoint that have not come back
OutstandingGatewayRequests ==
    Cardinality({i \in 1..Len(calls) : calls[i].stage = "http"})

OutstandingRequests ==
    OutstandingGatewayRequests + (IF probe = "pending" THEN 1 ELSE 0)

----------------------------------------------------------------------------
(* Rendering and events *)

\* a render binds the handlers to the state values of that render
Render(m, i, l) == [messages |-> m, input |-> i, isLoading |-> l]

\* an event as the history variable records it: for a submit or keydown, ok
\* says that handleSubmit passed its guard; for a resolve, ok says that
\* callGroqAPI returned and value is what it returned or threw
Event(type, key, shiftKey, ok, value) ==
    [type |-> type, key |-> key, shiftKey |-> shiftKey, ok |-> ok,
     value |-> value]

\* variant: the guard without the isLoading test
submitAcceptedIgnoringLoading == trim(closure.input) # <<>>

\* variant: the guard without the trim
submitAcceptedUntrimmed == closure.input # <<>> /\ ~closure.isLoading

\* if (!input.trim() || isLoading) return;
submitAccepted == trim(closure.input) # <<>> /\ ~closure.isLoading

\* variant: the draft is stored as typed
userMessageUntrimmed(t) ==
    [id |-> toString(t), content |-> closure.input, role |-> "user"]

userMessage(t) ==
    [id |-> toString(t), content |-> trim(closure.input), role |-> "user"]

\* variant: only the new turn is sent
conversationHistoryLatestOnly(um) == <<um>>

\* const conversationHistory = [...messages, userMessage]
conversationHistory(um) == Append(closure.messages, um)

\* variant: the reply is trimmed before it is stored
aiMessageTrimmed(t, aiResponse) ==
    [id |-> toString(t + 1), content |-> trim(aiResponse), role |-> "assistant"]

aiMessage(t, aiResponse) ==
    [id |-> toString(t + 1), content |-> aiResponse, role |-> "assistant"]

errorMessage(t) ==
    [id |-> toString(t + 1), content |-> apiErrorText(language),
     role |-> "assistant"]

\* the model stops accepting when the transcript or the set of awaiting
\* activations would outgrow its bound
WithinBounds ==
    /\ Len(messages) + Len(calls) + 2 <= MaxTurns
    /\ Len(calls) < MaxCalls

\* handleSubmit up to its await, entered by event `ev`
handleSubmit(ev) ==
    IF submitAccepted
    THEN /\ WithinBounds
         /\ \E t \in now..MaxNow :
              /\ now' = t
              /\ messages' = Append(messages, userMessage(t))
              /\ calls' = Append(calls, startCall(conversationHistory(userMessage(t))))
         /\ input' = <<>>
         /\ isLoading' = TRUE
         /\ closure' = Render(messages', input', isLoading')
         /\ event' = [ev EXCEPT !.ok = TRUE]
         /\ UNCHANGED <<activeTool, language, apiKey, probe>>
    ELSE /\ event' = [ev EXCEPT !.ok = FALSE]
         /\ UNCHANGED <<messages, input, isLoading, activeTool, language,
                        apiKey, closure, calls, probe, now>>

\* <form onSubmit={handleSubmit}>
FormSubmit ==
    /\ ~MicrotaskPending
    /\ handleSubmit(Event("submit", "", FALSE, FALSE, <<>>))

Keys == {"Enter"}

\* variant: Enter submits whether or not Shift is held
KeyDownIgnoresShift(key, shiftKey) ==
    /\ ~MicrotaskPending
    /\ IF key = "Enter"
       THEN handleSubmit(Event("keydown", key, shiftKey, FALSE, <<>>))
       ELSE /\ event' = Event("keydown", key, shiftKey, FALSE, <<>>)
            /\ UNCHANGED <<messages, input, isLoading, activeTool, language,
                           apiKey, closure, calls, probe, now>>

\* handleKeyDown
KeyDown(key, shiftKey) ==
    /\ ~MicrotaskPending
    /\ IF key = "Enter" /\ ~shiftKey
       THEN handleSubmit(Event("keydown", key, shiftKey, FALSE, <<>>))
       ELSE /\ event' = Event("keydown", key, shiftKey, FALSE, <<>>)
            /\ UNCHANGED <<messages, input, isLoading, activeTool, language,
                           apiKey, closure, calls, probe, now>>

\* the textarea's onChange: setInput(e.target.value)
Change(value) ==
    /\ ~MicrotaskPending
    /\ input' = value
    /\ closure' = Render(messages, input', isLoading)
    /\ event' = Event("change", "", FALSE, FALSE, <<>>)
    /\ UNCHANGED <<messages, isLoading, activeTool, language, apiKey, calls,
                   probe, now>>

\* variant: new chat also clears the loading flag
NewChatClearsLoading ==
    /\ ~MicrotaskPending
    /\ messages' = <<>>
    /\ input' = <<>>
    /\ isLoading' = FALSE
    /\ closure' = Render(messages', input', isLoading')
    /\ event' = Event("newChat", "", FALSE, FALSE, <<>>)
    /\ UNCHANGED <<activeTool, language, apiKey, calls, probe, now>>

\* variant: new chat leaves the draft alone
NewChatKeepsDraft ==
    /\ ~MicrotaskPending
    /\ messages' = <<>>
    /\ closure' = Render(messages', input, isLoading)
    /\ event' = Event("newChat", "", FALSE, FALSE, <<>>)
    /\ UNCHANGED <<input, isLoading, activeTool, language, apiKey, calls,
                   probe, now>>

\* the "new chat" button: setMessages([]); setInput('')
NewChat ==
    /\ ~MicrotaskPending
    /\ messages' = <<>>
    /\ input' = <<>>
    /\ closure' = Render(messages', input', isLoading)
    /\ event' = Event("newChat", "", FALSE, FALSE, <<>>)
    /\ UNCHANGED <<isLoading, activeTool, language, apiKey, calls, probe, now>>

\* variant: switching the tool starts a fresh draft
SetActiveToolClearsDraft(tool) ==
    /\ ~MicrotaskPending
    /\ activeTool' = tool
    /\ input' = <<>>
    /\ closure' = Render(messages, input', isLoading)
    /\ event' = Event("setActiveTool", "", FALSE, FALSE, <<>>)
    /\ UNCHANGED <<messages, isLoading, language, apiKey, calls, probe, now>>

\* a tool button: setActiveTool(tool.id)
SetActiveTool(tool) ==
    /\ ~MicrotaskPending
    /\ activeTool' = tool
    /\ event' = Event("setActiveTool", "", FALSE, FALSE, <<>>)
    /\ UNCHANGED <<messages, input, isLoading, language, apiKey, closure,
                   calls, probe, now>>

toggleLanguage ==
    /\ ~MicrotaskPending
    /\ language' = IF language = "en" THEN "zh" ELSE "en"
    /\ event' = Event("toggleLanguage", "", FALSE, FALSE, <<>>)
    /\ UNCHANGED <<messages, input, isLoading, activeTool, apiKey, closure,
                   calls, probe, now>>

last(seq) == seq[Len(seq)]

RemoveAt(s, i) == SubSeq(s, 1, i - 1) \o SubSeq(s, i + 1, Len(s))

\* variant: the catch clause shows the failure's own message
replyMessageShowsFailure(t, result) == aiMessage(t, result.value)

\* the turn handleSubmit appends after its await: try / catch
replyMessage(t, result) ==
    IF result.ok THEN aiMessage(t, result.value) ELSE errorMessage(t)

\* variant: the catch clause only logs and appends nothing
ResumeDropsFailure(i, result) ==
    /\ \E t \in now..MaxNow :
         /\ now' = t
         /\ messages' = IF result.ok
                        THEN Append(messages, aiMessage(t, result.value))
                        ELSE messages
    /\ isLoading' = FALSE
    /\ calls' = RemoveAt(calls, i)
    /\ closure' = Render(messages', input, isLoading')
    /\ event' = Event("resolve", "", FALSE, result.ok, result.value)
    /\ UNCHANGED <<input, activeTool, language, apiKey, probe>>

\* variant: the catch clause puts the submitted text back into the draft
ResumeRestoresDraft(i, result) ==
    /\ \E t \in now..MaxNow :
         /\ now' = t
         /\ messages' = Append(messages, replyMessage(t, result))
    /\ input' = IF result.ok THEN input ELSE last(calls[i].userMessages).content
    /\ isLoading' = FALSE
    /\ calls' = RemoveAt(calls, i)
    /\ closure' = Render(messages', input', isLoading')
    /\ event' = Event("resolve", "", FALSE, result.ok, result.value)
    /\ UNCHANGED <<activeTool, language, apiKey, probe>>

\* variant: the reply is written behind the history captured at submission
\* instead of behind the current transcript
ResumeFromCapturedHistory(i, result) ==
    /\ \E t \in now..MaxNow :
         /\ now' = t
         /\ messages' = Append(calls[i].userMessages, replyMessage(t, result))
    /\ isLoading' = FALSE
    /\ calls' = RemoveAt(calls, i)
    /\ closure' = Render(messages', input, isLoading')
    /\ event' = Event("resolve", "", FALSE, result.ok, result.value)
    /\ UNCHANGED <<input, activeTool, language, apiKey, probe>>

\* variant: the flag is cleared at the end of the try block, not in finally
ResumeClearsOnSuccessOnly(i, result) ==
    /\ \E t \in now..MaxNow :
         /\ now' = t
         /\ messages' = Append(messages, replyMessage(t, result))
    /\ isLoading' = (isLoading /\ ~result.ok)
    /\ calls' = RemoveAt(calls, i)
    /\ closure' = Render(messages', input, isLoading')
    /\ event' = Event("resolve", "", FALSE, result.ok, result.value)
    /\ UNCHANGED <<input, activeTool, language, apiKey, probe>>

\* handleSubmit after its await, for the i-th awaiting activation:
\* try / catch append the reply, finally clears the flag
Resume(i, result) ==
    /\ \E t \in now..MaxNow :
         /\ now' = t
         /\ messages' = Append(messages, replyMessage(t, result))
    /\ isLoading' = FALSE
    /\ calls' = RemoveAt(calls, i)
    /\ closure' = Render(messages', input, isLoading')
    /\ event' = Event("resolve", "", FALSE, result.ok, result.value)
    /\ UNCHANGED <<input, activeTool, language, apiKey, probe>>

\* the request of an awaiting activation comes back
Resolve(i, outcome) ==
    /\ ~MicrotaskPending
    /\ calls[i].stage = "http"
    /\ Resume(i, settled(outcome))

\* the rejection of a call that threw before posting is delivered
ResolveWithoutKey(i) ==
    /\ calls[i].stage = "rejected"
    /\ Resume(i, settledWithoutKey)

\* variant: a failed start-up test is reported in the transcript
testApiKeySettledShowsFailure(ok) ==
    /\ ~MicrotaskPending
    /\ probe = "pending"
    /\ probe' = "done"
    /\ messages' = IF ok THEN messages
                   ELSE <<[id |-> toString(now), content |-> apiErrorText(language),
                           role |-> "assistant"]>>
    /\ closure' = Render(messages', input, isLoading)
    /\ event' = Event("probeSettled", "", FALSE, ok, <<>>)
    /\ UNCHANGED <<input, isLoading, activeTool, language, apiKey, calls, now>>

\* testApiKey's request comes back, with a response (ok) or an error; both
\* arms only write to the console
testApiKeySettled(ok) ==
    /\ ~MicrotaskPending
    /\ probe = "pending"
    /\ probe' = "done"
    /\ event' = Event("probeSettled", "", FALSE, ok, <<>>)
    /\ UNCHANGED <<messages, input, isLoading, activeTool, language, apiKey,
                   closure, calls, now>>

----------------------------------------------------------------------------
(* Specification *)

\* the state after the first render and the mount effect (App.tsx:25-33)
Init ==
    /\ messages = <<>>
    /\ input = <<>>
    /\ isLoading = FALSE
    /\ activeTool = "chat"
    /\ language \in Languages
    /\ apiKey \in BOOLEAN
    /\ closure = Render(<<>>, <<>>, FALSE)
    /\ calls = <<>>
    /\ probe = IF apiKey THEN "pending" ELSE "none"
    /\ now = 0
    /\ event = Event("mount", "", FALSE, FALSE, <<>>)

Next ==
    \/ FormSubmit
    \/ \E key \in Keys, shiftKey \in BOOLEAN : KeyDown(key, shiftKey)
    \/ \E value \in Drafts : Change(value)
    \/ NewChat
    \/ \E tool \in Tools : SetActiveTool(tool)
    \/ toggleLanguage
    \/ \E i \in 1..Len(calls), outcome \in Outcomes : Resolve(i, outcome)
    \/ \E i \in 1..Len(calls) : ResolveWithoutKey(i)
    \/ \E ok \in BOOLEAN : testApiKeySettled(ok)

Spec == Init /\ [][Next]_vars

\* some awaited gateway call settles and its handleSubmit resumes
Settle ==
    \/ \E i \in 1..Len(calls), outcome \in Outcomes : Resolve(i, outcome)
    \/ \E i \in 1..Len(calls) : ResolveWithoutKey(i)

\* the transport settles every request it was given, and the runtime runs
\* every continuation that is ready
FairSpec == Spec /\ WF_vars(Settle)

----------------------------------------------------------------------------
(* Vocabulary of the properties *)

\* e is a submit event: the form's submit, or Enter without Shift
IsSubmit(e) ==
    \/ e.type = "submit"
    \/ e.type = "keydown" /\ e.key = "Enter" /\ ~e.shiftKey

\* this step dispatches a submit event
SubmitStep == IsSubmit(event')

\* this step dispatches a submit event that handleSubmit accepts
AcceptStep == IsSubmit(event') /\ event'.ok

\* this step resumes a handleSubmit whose gateway call settled
ResolveStep == event'.type = "resolve"

\* this step appends exactly one turn of `role` and keeps the turns before it
AppendsOne(role) ==
    /\ Len(messages') = Len(messages) + 1
    /\ SubSeq(messages', 1, Len(messages)) = messages
    /\ last(messages').role = role

----------------------------------------------------------------------------
(* C1: every accepted submit appends exactly one user turn in the step that *)
(* accepts it, every resolution of a gateway call (success or failure)      *)
(* appends exactly one assistant turn in the step that resolves it and      *)
(* retires exactly one awaiting call, and no other step appends a turn.     *)
C1_OneUserTurnThenOneReply ==
    [][ /\ AcceptStep =>
             AppendsOne("user") /\ Len(calls') = Len(calls) + 1
        /\ ResolveStep =>
             AppendsOne("assistant") /\ Len(calls') = Len(calls) - 1
        /\ ~AcceptStep /\ ~ResolveStep =>
             Len(messages') <= Len(messages) /\ calls' = calls
      ]_vars

\* a failed call has been answered: the user turn and, after it, its reply
C1_Witness ==
    /\ event.type = "resolve" /\ ~event.ok
    /\ Len(messages) = 2
    /\ messages[1].role = "user" /\ messages[2].role = "assistant"
    /\ calls = <<>>

(* C2: in every reachable state the transcript alternates roles starting    *)
(* with a user turn: turn 1, 3, ... are user turns, turn 2, 4, ... are      *)
(* assistant turns.                                                         *)
C2_StrictAlternation ==
    \A i \in 1..Len(messages) :
        messages[i].role = IF i % 2 = 1 THEN "user" ELSE "assistant"

(* C3 as stated: the number of outstanding requests to the completion       *)
(* endpoint is 0 or 1 in every reachable state.                             *)
C3_AtMostOneOutstandingRequest == OutstandingRequests <= 1

(* C3 as amended: at most one callGroqAPI call made by a submission is      *)
(* awaited at any time; with the start-up request of testApiKey, at most    *)
(* two requests to the completion endpoint are outstanding.                 *)
C3_AtMostOneGatewayCall ==
    /\ Len(calls) <= 1
    /\ OutstandingRequests <= 2

\* a submission's request and the start-up request are out together
C3_Witness ==
    /\ Len(calls) = 1 /\ calls[1].stage = "http"
    /\ probe = "pending"
    /\ IsSubmit(event) /\ event.ok

(* C4: isLoading is true exactly while a call made by a submission is       *)
(* awaited; it changes only in the step that accepts a submit (to true) or  *)
(* in the step that resolves the call (to false).                           *)
C4_LoadingIffCallPending ==
    /\ [](isLoading <=> calls # <<>>)
    /\ [][ isLoading' # isLoading =>
             \/ AcceptStep /\ isLoading'
             \/ ResolveStep /\ ~isLoading'
         ]_vars

\* new chat was clicked while a call was awaited and the flag is still set
C4_Witness ==
    /\ event.type = "newChat"
    /\ isLoading
    /\ Len(calls) = 1

(* C5: in the step that accepts a submit, the turns handed to callGroqAPI   *)
(* carry the same {role, content} pairs, in the same order, as the          *)
(* transcript right after the user turn is appended.                        *)
C5_HistorySentIsTranscript ==
    [][ AcceptStep =>
          /\ AppendsOne("user")
          /\ calls' # <<>>
          /\ requestMessages(last(calls').userMessages)
               = requestMessages(messages')
      ]_vars

\* a submit accepted after a reply landed in a transcript reset by new chat
C5_Witness ==
    /\ IsSubmit(event) /\ event.ok
    /\ Len(messages) = 2
    /\ messages[1].role = "assistant" /\ messages[2].role = "user"
    /\ Len(calls) = 1
    /\ requestMessages(calls[1].userMessages) = requestMessages(messages)

C7_SuccessContentIsReturnedText ==
    (event.type = "resolve" /\ event.ok) =>
        /\ messages # <<>>
        /\ last(messages).role = "assistant"
        /\ last(messages).content = event.value

\* a reply padded with whitespace was appended as returned
C7_Witness ==
    /\ event.type = "resolve" /\ event.ok
    /\ event.value = <<" ", "o", "k", " ">>
    /\ messages # <<>>
    /\ last(messages).content = <<" ", "o", "k", " ">>

(* C8: a submit event while the draft is empty after trimming changes       *)
(* neither messages, isLoading, input nor activeTool and starts no call.    *)
C8_EmptySubmitIsNoOp ==
    [][ SubmitStep /\ trim(input) = <<>> =>
          /\ ~event'.ok
          /\ UNCHANGED <<messages, isLoading, input, activeTool, calls, probe>>
      ]_vars

\* a whitespace-only draft was submitted while idle and nothing happened
C8_Witness ==
    /\ IsSubmit(event) /\ ~event.ok
    /\ input = <<" ", "\n">>
    /\ ~isLoading
    /\ calls = <<>>

(* C9: a submit event while isLoading is true appends no turn, keeps the    *)
(* draft, keeps isLoading true and starts no second call.                   *)
C9_SubmitWhileLoadingIsNoOp ==
    [][ SubmitStep /\ isLoading =>
          /\ ~event'.ok
          /\ isLoading'
          /\ UNCHANGED <<messages, input, calls, activeTool, probe>>
      ]_vars

\* a non-empty draft was submitted while a call was awaited and was kept
C9_Witness ==
    /\ IsSubmit(event) /\ ~event.ok
    /\ isLoading
    /\ trim(input) # <<>>
    /\ Len(calls) = 1

(* C10: right after the new-chat action the transcript and the draft are    *)
(* empty, whatever the state it was taken in.                               *)
C10_NewChatEmptiesTranscriptAndDraft ==
    event.type = "newChat" => messages = <<>> /\ input = <<>>

\* new chat was clicked while a request was in flight
C10_Witness ==
    /\ event.type = "newChat"
    /\ isLoading
    /\ calls # <<>>
    /\ messages = <<>> /\ input = <<>>

(* C11: under the assumption that every gateway call settles, whenever      *)
(* isLoading is true it is eventually false again, whatever the user does   *)
(* while the call is pending.                                               *)
C11_LoadingEventuallyClears == isLoading ~> ~isLoading

\* a call that new chat and a language toggle did not abort has failed and
\* the flag is cleared
C11_Witness ==
    /\ event.type = "resolve" /\ ~event.ok
    /\ ~isLoading
    /\ calls = <<>>
    /\ Len(messages) = 1

(* C12: a tool switch, to any of the three tools and in any state, leaves   *)
(* messages, input, isLoading and the awaited calls unchanged, and          *)
(* activeTool is always one of chat, editor, chart.                         *)
C12_ToolSwitchTouchesOnlyActiveTool ==
    /\ [](activeTool \in Tools)
    /\ [][ event'.type = "setActiveTool" =>
             /\ activeTool' \in Tools
             /\ UNCHANGED <<messages, input, isLoading, calls, probe>>
         ]_vars

\* the tool was switched while a request was in flight and a draft was typed
C12_Witness ==
    /\ event.type = "setActiveTool"
    /\ activeTool = "chart"
    /\ isLoading /\ Len(calls) = 1
    /\ trim(input) # <<>>

(* C13 as stated: apart from edits in the textarea, input changes only in   *)
(* the step that accepts a submit, which sets it to empty.                  *)
C13_DraftClearedOnlyOnSubmit ==
    [][ /\ AcceptStep => input' = <<>>
        /\ input' # input => event'.type = "change" \/ AcceptStep
      ]_vars

(* C13 as amended: apart from edits in the textarea, input changes only in  *)
(* the step that accepts a submit and in the new-chat step, both of which   *)
(* set it to empty; a rejected submit, a resolution (success or failure)    *)
(* and a tool switch leave it as it is.                                     *)
C13_DraftClearedOnSubmitOrNewChat ==
    [][ /\ AcceptStep => input' = <<>>
        /\ event'.type = "newChat" => input' = <<>>
        /\ input' # input =>
             event'.type = "change" \/ AcceptStep \/ event'.type = "newChat"
        /\ ResolveStep => input' = input
      ]_vars

\* a call failed and the submitted text was not put back into the draft
C13_Witness ==
    /\ event.type = "resolve" /\ ~event.ok
    /\ input = <<>>
    /\ Len(messages) = 2
    /\ messages[1].role = "user"

(* C14: without a key no request to the endpoint is ever outstanding, an    *)
(* accepted submit leaves the user turn last with isLoading set, and the    *)
(* resumption that follows is a failure that leaves the user turn followed  *)
(* by the error turn of the current language, with isLoading cleared.       *)
C14_NoKeyNoRequestButErrorTurn ==
    ~apiKey =>
        /\ OutstandingRequests = 0
        /\ \A i \in 1..Len(calls) : calls[i].stage = "rejected"
        /\ (IsSubmit(event) /\ event.ok) =>
              /\ isLoading
              /\ messages # <<>> /\ last(messages).role = "user"
        /\ event.type = "resolve" =>
              /\ ~event.ok
              /\ ~isLoading
              /\ Len(messages) >= 2
              /\ messages[Len(messages) - 1].role = "user"
              /\ last(messages).role = "assistant"
              /\ last(messages).content = apiErrorText(language)

\* without a key a submission was answered by the error turn
C14_Witness ==
    /\ ~apiKey
    /\ event.type = "resolve" /\ ~event.ok
    /\ Len(messages) = 2
    /\ last(messages).content = apiErrorText(language)
    /\ ~isLoading

(* C15: no assistant turn with absent content is ever in the transcript:    *)
(* a success response without choices[0].message.content makes the gateway *)
(* fail, so the turn appended for it is the error turn.                     *)
C15_NoTurnWithAbsentContent ==
    \A i \in 1..Len(messages) : messages[i].content # undefined

\* this step does what a guarded submission does: accepted exactly when the
\* draft is non-empty after trimming and isLoading is false, and inert if not
GuardedSubmission ==
    LET legal == trim(input) # <<>> /\ ~isLoading
    IN  /\ event'.ok <=> legal
        /\ legal =>
              /\ AppendsOne("user")
              /\ last(messages').content = trim(input)
              /\ input' = <<>>
              /\ isLoading'
              /\ Len(calls') = Len(calls) + 1
        /\ ~legal => UNCHANGED <<messages, input, isLoading, calls>>

(* C16: a keydown of Enter without Shift does what the form's submit does,  *)
(* the guarded submission; a keydown of Enter with Shift submits nothing:   *)
(* no turn, no call, isLoading and the draft unchanged.                     *)
C16_EnterSubmitsShiftEnterDoesNot ==
    [][ /\ event'.type = "submit" => GuardedSubmission
        /\ (event'.type = "keydown" /\ event'.key = "Enter" /\ ~event'.shiftKey)
              => GuardedSubmission
        /\ (event'.type = "keydown" /\ event'.shiftKey) =>
              /\ ~event'.ok
              /\ UNCHANGED <<messages, input, isLoading, calls>>
      ]_vars

\* Shift+Enter was pressed on a draft that a submit would have accepted
C16_Witness ==
    /\ event.type = "keydown" /\ event.key = "Enter" /\ event.shiftKey
    /\ trim(input) # <<>>
    /\ ~isLoading
    /\ calls = <<>>

(* C17: every step other than new chat leaves the transcript as it is or    *)
(* appends exactly one turn to it, so the transcript before the step is a   *)
(* prefix of the transcript after it.                                       *)
C17_AppendOnlyBetweenResets ==
    [][ event'.type # "newChat" =>
          \/ messages' = messages
          \/ /\ Len(messages') = Len(messages) + 1
             /\ SubSeq(messages', 1, Len(messages)) = messages
      ]_vars

\* a reply was appended behind turns that were there before the submission
C17_Witness ==
    /\ event.type = "resolve"
    /\ Len(messages) = 3

(* C18: in every reachable state the turns of the transcript have pairwise  *)
(* distinct ids, for every non-decreasing sequence of clock readings.       *)
C18_IdsPairwiseDistinct ==
    \A i, j \in 1..Len(messages) : i # j => messages[i].id # messages[j].id

(* C19: the user turn appended by an accepted submit has the trimmed draft  *)
(* as its content, and in every reachable state every user turn's content   *)
(* is non-empty and neither starts nor ends with whitespace.                *)
C19_UserContentIsTrimmedDraft ==
    /\ [](\A i \in 1..Len(messages) :
            messages[i].role = "user" =>
                /\ messages[i].content # <<>>
                /\ Head(messages[i].content) \notin WhiteSpace
                /\ last(messages[i].content) \notin WhiteSpace)
    /\ [][ AcceptStep =>
             /\ AppendsOne("user")
             /\ last(messages').content = trim(input)
         ]_vars

\* a draft padded with whitespace on both ends was submitted and stored bare
C19_Witness ==
    /\ IsSubmit(event) /\ event.ok
    /\ messages # <<>>
    /\ last(messages).role = "user"
    /\ last(messages).content = <<"a">>

(* C20: without a key the start-up check posts nothing, with a key it posts *)
(* one request, which is never posted again; the step in which that        *)
(* request comes back, with a response or an error, leaves messages, input, *)
(* isLoading, activeTool and the awaited calls unchanged; and whatever the  *)
(* state of the start-up request, a submit of a draft that is non-empty     *)
(* after trimming while isLoading is false is accepted.                     *)
C20_StartupCheckLeavesConversationAlone ==
    /\ [](probe = "none" <=> ~apiKey)
    /\ [][ /\ probe' # probe =>
                /\ probe = "pending"
                /\ probe' = "done"
                /\ event'.type = "probeSettled"
           /\ event'.type = "probeSettled" =>
                UNCHANGED <<messages, input, isLoading, activeTool, calls,
                            closure>>
           /\ (SubmitStep /\ trim(input) # <<>> /\ ~isLoading) => AcceptStep
         ]_vars

\* the start-up request failed while a submission was awaiting its reply,
\* and the conversation is as it was
C20_Witness ==
    /\ event.type = "probeSettled" /\ ~event.ok
    /\ probe = "done"
    /\ isLoading
    /\ Len(calls) = 1
    /\ Len(messages) = 1
    /\ trim(input) # <<>>

====
